---- MODULE Spec2Model ----
(***************************************************************************)
(* Story lifecycle and numbering engine of the project-management board:   *)
(* the REST handlers of server/routes.ts over the two storage back ends    *)
(* (MemStorage and DatabaseStorage) and the shared schema.                 *)
(*                                                                         *)
(* Text values that the code takes apart (project labels, story numbers)   *)
(* are sequences of one-character strings, so that split, parseInt,        *)
(* toString and padStart are computed as the code computes them.  A        *)
(* nullable column holds <<>> for null and <<v>> for the value v.  Time is *)
(* counted in half days: an even instant is a local midnight.              *)
(*                                                                         *)
(* Story columns that no handler inspects (description, acceptance         *)
(* criteria, team lead, epic link, sprint id, tags, createdAt, updatedAt)  *)
(* are left out of the records.                                            *)
(*                                                                         *)
(* The variable client is the state of one Kanban board in a browser: its  *)
(* local columns and the drag-and-drop update it has in flight.            *)
(***************************************************************************)
EXTENDS Integers, Sequences, FiniteSets

\* Number of steps (requests steps, half days passed) of one behaviour.
MaxSteps == 2

VARIABLES backend, users, stories, comments, nextStoryId, nextCommentId,
          now, steps, pending, issued, response, client

vars == <<backend, users, stories, comments, nextStoryId, nextCommentId,
          now, steps, pending, issued, response, client>>

store == <<users, stories, comments>>

-----------------------------------------------------------------------------
(* Text helpers *)

Digits == <<"0", "1", "2", "3", "4", "5", "6", "7", "8", "9">>

IsDigit(c) == \E i \in 1..10 : Digits[i] = c

DigitVal(c) == (CHOOSE i \in 1..10 : Digits[i] = c) - 1

\* The not-a-number result of parseInt; every number parseInt can return here
\* is non-negative because split('-') has removed the minus signs.
NaN == 0 - 1

\* String.prototype.split(sep): the pieces of s between occurrences of sep.
RECURSIVE SplitFrom(_, _, _, _)
SplitFrom(s, sep, i, cur) ==
    IF i > Len(s) THEN <<cur>>
    ELSE IF s[i] = sep THEN <<cur>> \o SplitFrom(s, sep, i + 1, <<>>)
    ELSE SplitFrom(s, sep, i + 1, Append(cur, s[i]))

Split(s, sep) == SplitFrom(s, sep, 1, <<>>)

\* parseInt(s): the value of the longest prefix of decimal digits, NaN when
\* there is none.
RECURSIVE ParseDigits(_, _, _)
ParseDigits(s, i, acc) ==
    IF i > Len(s) \/ ~IsDigit(s[i]) THEN acc
    ELSE ParseDigits(s, i + 1, acc * 10 + DigitVal(s[i]))

ParseInt(s) ==
    IF Len(s) = 0 \/ ~IsDigit(s[1]) THEN NaN ELSE ParseDigits(s, 1, 0)

\* Number.prototype.toString() of a non-negative integer.
RECURSIVE NumToString(_)
NumToString(n) ==
    IF n < 10 THEN <<Digits[n + 1]>>
    ELSE Append(NumToString(n \div 10), Digits[(n % 10) + 1])

\* String.prototype.padStart(len, ch).
RECURSIVE PadStart(_, _, _)
PadStart(s, len, ch) ==
    IF Len(s) >= len THEN s ELSE PadStart(<<ch>> \o s, len, ch)

\* The segment the allocator reads: storyNumber.split('-')[1], undefined
\* (parsed as NaN) when the number holds no '-'.
SecondSegment(s) ==
    LET parts == Split(s, "-") IN
    IF Len(parts) >= 2 THEN parts[2] ELSE <<>>

RECURSIVE MaxOf(_)
MaxOf(S) ==
    LET x == CHOOSE y \in S : TRUE IN
    IF Cardinality(S) = 1 THEN x
    ELSE LET m == MaxOf(S \ {x}) IN IF x > m THEN x ELSE m

Range(s) == {s[i] : i \in DOMAIN s}

-----------------------------------------------------------------------------
(* Values *)

TD == <<"T", "&", "D">>
ADMS == <<"A", "D", "M", "S">>
\* A project label that itself holds the separator: "R-D".
RD == <<"R", "-", "D">>

\* `${project}-${digits}`
NumberText(project, digits) == project \o <<"-">> \o digits

Null == <<>>
Some(v) == <<v>>
IsNull(o) == Len(o) = 0
Val(o) == o[1]

\* No session principal.
NoUser == 0

Has(obj, f) == f \in DOMAIN obj

\* Object spread { ...a, ...b }: the keys of both, b's value where both have one.
Spread(a, b) ==
    [f \in (DOMAIN a) \cup (DOMAIN b) |-> IF f \in DOMAIN b THEN b[f] ELSE a[f]]

\* The start of the local day an instant falls in: setHours(0, 0, 0, 0).
SetHoursZero(t) == (t \div 2) * 2

-----------------------------------------------------------------------------
(* Seed data: five users, five stories, two comments *)

SeedUsers == <<
    [id |-> 1, username |-> "admin", email |-> "admin@project.com",
     password |-> "$2b$10$vje0", role |-> "Admin"],
    [id |-> 2, username |-> "shantnu", email |-> "shantnu@project.com",
     password |-> "$2b$10$vje0", role |-> "Team Lead"],
    [id |-> 3, username |-> "pranav", email |-> "pranav@project.com",
     password |-> "$2b$10$vje0", role |-> "Team Lead"],
    [id |-> 4, username |-> "abhishek", email |-> "abhishek@project.com",
     password |-> "$2b$10$vje0", role |-> "User"],
    [id |-> 5, username |-> "tanay", email |-> "tanay@project.com",
     password |-> "$2b$10$vje0", role |-> "User"] >>

SeedStory(id, project, digits, pointer, status, priority, due, assignee, creator) ==
    [id |-> id, storyNumber |-> Some(NumberText(project, digits)),
     title |-> "seed", pointer |-> Some(pointer), status |-> status,
     priority |-> priority, storyType |-> "Story", project |-> project,
     workspace |-> project, activeSprint |-> Some("sprint-1"),
     dueDate |-> Some(due), assigneeId |-> Some(assignee),
     createdBy |-> creator, updatedBy |-> Some(creator)]

\* The due dates are 7, 5, 10, 3 and -1 days from the construction instant t0.
SeedStories(t0) == <<
    SeedStory(1, TD, <<"1", "0", "0", "1">>, 8, "To Do", "High", t0 + 14, 1, 1),
    SeedStory(2, TD, <<"1", "0", "0", "2">>, 5, "To Do", "Medium", t0 + 10, 5, 2),
    SeedStory(3, TD, <<"1", "0", "0", "3">>, 13, "In Progress", "High", t0 + 20, 2, 3),
    SeedStory(4, ADMS, <<"1", "0", "0", "1">>, 8, "Validation", "Medium", t0 + 6, 3, 1),
    SeedStory(5, TD, <<"1", "0", "0", "4">>, 3, "Completed", "Low", t0 - 2, 1, 1) >>

SeedComments == <<
    [id |-> 1, storyId |-> 1, userId |-> 2, commentText |-> "@admin bcrypt vs argon2?"],
    [id |-> 2, storyId |-> 1, userId |-> 1, commentText |-> "@shantnu bcrypt"] >>

-----------------------------------------------------------------------------
(* Shared schema *)

\* The story columns a request body may carry; zod strips every other key
\* (id, createdAt and updatedAt are omitted from the insert schema).
InsertStoryKeys ==
    {"storyNumber", "title", "pointer", "status", "priority", "storyType",
     "project", "workspace", "activeSprint", "dueDate", "assigneeId",
     "createdBy", "updatedBy"}

\* The refinement of dueDate: the date is moved to the start of its day and
\* compared with the start of the current day.  An absent date passes.
DueDateOk(data, t) ==
    ~Has(data, "dueDate") \/ SetHoursZero(data.dueDate) >= SetHoursZero(t)

\* insertStorySchema.parse succeeds: title and createdBy are required, every
\* other column is optional, status/priority/storyType are free text.
InsertStoryValid(data, t) ==
    /\ Has(data, "title")
    /\ Has(data, "createdBy")
    /\ DueDateOk(data, t)

\* The value insertStorySchema.parse returns: the known keys, with the due
\* date as the refinement left it (at the start of its day).
InsertStoryParse(data) ==
    [f \in (DOMAIN data) \cap InsertStoryKeys |->
        IF f = "dueDate" THEN SetHoursZero(data[f]) ELSE data[f]]

\* insertCommentSchema.parse succeeds: storyId, userId and commentText required.
InsertCommentValid(data) ==
    Has(data, "storyId") /\ Has(data, "userId") /\ Has(data, "commentText")

-----------------------------------------------------------------------------
(* Storage: look-ups *)

UserIds(us) == {us[i].id : i \in DOMAIN us}
StoryIds(sts) == {sts[i].id : i \in DOMAIN sts}
CommentIds(cs) == {cs[i].id : i \in DOMAIN cs}

\* getUser(id)
GetUser(us, id) == CHOOSE u \in Range(us) : u.id = id

StoryById(sts, id) == CHOOSE s \in Range(sts) : s.id = id
CommentById(cs, id) == CHOOSE c \in Range(cs) : c.id = id

\* Map.delete / DELETE ... WHERE id = ?
RemoveId(seq, id) == SelectSeq(seq, LAMBDA r : r.id # id)

\* Map.set on a present key / UPDATE ... WHERE id = ?: the row keeps its place.
ReplaceId(seq, id, row) == [i \in DOMAIN seq |-> IF seq[i].id = id THEN row ELSE seq[i]]

-----------------------------------------------------------------------------
(* Storage: the identifier allocator *)

\* a || b on text, on free-text strings and on numbers
TextOr(obj, f, d) == IF Has(obj, f) /\ Len(obj[f]) > 0 THEN obj[f] ELSE d
StrOr(obj, f, d) == IF Has(obj, f) /\ obj[f] # "" THEN obj[f] ELSE d
NumOr(obj, f, d) == IF Has(obj, f) /\ obj[f] # 0 THEN obj[f] ELSE d

\* story.project || "T&D"
ProjectOf(story) == TextOr(story, "project", TD)

\* A stored story number the scan keeps: not null and not empty.
Truthy(storyNumber) == ~IsNull(storyNumber) /\ Len(Val(storyNumber)) > 0

\* existingNumbers: the parsed second segment of every numbered story of the
\* project, the unparsable ones dropped.
ExistingNumbers(sts, project) ==
    {n \in {ParseInt(SecondSegment(Val(s.storyNumber))) :
                s \in {r \in Range(sts) : r.project = project /\ Truthy(r.storyNumber)}} :
        n # NaN}

\* nextNumber
NextNumber(sts, project) ==
    LET existingNumbers == ExistingNumbers(sts, project) IN
    IF existingNumbers # {} THEN MaxOf(existingNumbers) + 1 ELSE 1001

\* storyNumber
NextStoryNumber(sts, project) ==
    NumberText(project, PadStart(NumToString(NextNumber(sts, project)), 4, "0"))

-----------------------------------------------------------------------------
(* Storage: stories *)

OptOf(obj, f) == IF Has(obj, f) THEN Some(obj[f]) ELSE Null

\* MemStorage.createStory: the row built from the parsed request.
MemNewStory(story, id, sts) ==
    LET project == ProjectOf(story) IN
    [id |-> id,
     storyNumber |-> Some(NextStoryNumber(sts, project)),
     title |-> story.title,
     pointer |-> Some(NumOr(story, "pointer", 0)),
     status |-> StrOr(story, "status", "To Do"),
     priority |-> StrOr(story, "priority", "Medium"),
     storyType |-> StrOr(story, "storyType", "Story"),
     project |-> project,
     workspace |-> TextOr(story, "workspace", project),
     activeSprint |-> Some(StrOr(story, "activeSprint", "sprint-1")),
     dueDate |-> OptOf(story, "dueDate"),
     assigneeId |-> IF NumOr(story, "assigneeId", NoUser) = NoUser THEN Null
                    ELSE Some(story.assigneeId),
     createdBy |-> story.createdBy,
     updatedBy |-> Some(NumOr(story, "updatedBy", story.createdBy))]

\* DatabaseStorage.createStory: the row the INSERT writes, with the column
\* defaults for what the values leave undefined (pointer defaults to 1).
DbNewStory(story, id, storyNumber) ==
    LET project == ProjectOf(story) IN
    [id |-> id,
     storyNumber |-> Some(storyNumber),
     title |-> story.title,
     pointer |-> IF Has(story, "pointer") THEN Some(story.pointer) ELSE Some(1),
     status |-> StrOr(story, "status", "To Do"),
     priority |-> StrOr(story, "priority", "Medium"),
     storyType |-> StrOr(story, "storyType", "Story"),
     project |-> project,
     workspace |-> TextOr(story, "workspace", project),
     activeSprint |-> Some(StrOr(story, "activeSprint", "sprint-1")),
     dueDate |-> OptOf(story, "dueDate"),
     assigneeId |-> OptOf(story, "assigneeId"),
     createdBy |-> story.createdBy,
     updatedBy |-> Some(NumOr(story, "updatedBy", story.createdBy))]

RefOk(us, ref) == IsNull(ref) \/ Val(ref) \in UserIds(us)

\* The stories table without the unique index on story_number.
StoryRowOkNoUnique(row, others, us) ==
    /\ RefOk(us, row.assigneeId)
    /\ row.createdBy \in UserIds(us)
    /\ RefOk(us, row.updatedBy)

\* The constraints of the stories table on a row written beside the rows
\* others: story_number is unique (nulls apart), assignee_id, created_by and
\* updated_by reference users.
StoryRowOk(row, others, us) ==
    /\ IsNull(row.storyNumber)
         \/ \A o \in Range(others) : o.storyNumber # row.storyNumber
    /\ RefOk(us, row.assigneeId)
    /\ row.createdBy \in UserIds(us)
    /\ RefOk(us, row.updatedBy)

\* The spread written the other way round: { ...updates, ...story }
MergeStoryStoredWins(story, updates) == Spread(updates, story)

\* updateStory: { ...story, ...updates } / SET ...updates
MergeStory(story, updates) == Spread(story, updates)

\* The comments table references stories without ON DELETE: a story that
\* comments refer to cannot be deleted from the database.
StoryDeletable(cs, id) == \A c \in Range(cs) : c.storyId # id

-----------------------------------------------------------------------------
(* Storage: dashboard metrics *)

\* The accumulator of the reduce is a plain object {}: reading the key
\* "__proto__" yields Object.prototype and writing a non-object to it is
\* ignored, so no own property of that name is ever created.  (The other names
\* inherited from Object.prototype are not among the request inputs.)
OwnKey(k) == k # "__proto__"

\* stories.reduce((acc, story) => { acc[story[f]] = (acc[story[f]] || 0) + 1 }, {})
\* over the first n stories.
RECURSIVE CountBy(_, _, _)
CountBy(sts, f, n) ==
    IF n = 0 THEN <<>>
    ELSE LET acc == CountBy(sts, f, n - 1)
             k == sts[n][f]
         IN IF ~OwnKey(k) THEN acc
            ELSE [x \in (DOMAIN acc) \cup {k} |->
                    IF x = k THEN (IF k \in DOMAIN acc THEN acc[k] ELSE 0) + 1
                    ELSE acc[x]]

\* stories.reduce((sum, story) => sum + (story.pointer || 0), 0) over the
\* first n stories.
RECURSIVE SumPointer(_, _)
SumPointer(sts, n) ==
    IF n = 0 THEN 0
    ELSE SumPointer(sts, n - 1)
            + (IF IsNull(sts[n].pointer) THEN 0 ELSE Val(sts[n].pointer))

\* completed: storiesByStatus["Completed"] || 0
CompletedOf(storiesByStatus) ==
    IF "Completed" \in DOMAIN storiesByStatus THEN storiesByStatus["Completed"] ELSE 0

\* getDashboardMetrics (both back ends compute it alike)
GetDashboardMetrics(sts, us) ==
    LET storiesByStatus == CountBy(sts, "status", Len(sts)) IN
    [totalStories |-> Len(sts),
     completed |-> CompletedOf(storiesByStatus),
     totalPoints |-> SumPointer(sts, Len(sts)),
     teamMembers |-> Len(us),
     storiesByStatus |-> storiesByStatus,
     storiesByPriority |-> CountBy(sts, "priority", Len(sts))]

-----------------------------------------------------------------------------
(* Access-control gate *)

\* req.isAuthenticated() && req.user: the session names a stored user.
IsAuthenticated(u) == u # NoUser /\ u \in UserIds(users)

RoleOf(u) == GetUser(users, u).role

\* requireAuth: 0 stands for next().
RequireAuth(u) == IF ~IsAuthenticated(u) THEN 401 ELSE 0

\* requireRole that looks at the role only: no principal is a wrong role.
RequireRoleOnly(u, roles) ==
    IF IsAuthenticated(u) /\ RoleOf(u) \in roles THEN 0 ELSE 403

\* requireRole(roles)
RequireRole(u, roles) ==
    IF ~IsAuthenticated(u) THEN 401
    ELSE IF RoleOf(u) \notin roles THEN 403
    ELSE 0

StoryDeleteRoles == {"Admin", "Team Lead"}
UserListRoles == {"Admin"}

-----------------------------------------------------------------------------
(* Requests *)

Reply(op, u, status, id) ==
    response' = [op |-> op, user |-> u, status |-> status, id |-> id]

Step == steps < MaxSteps /\ steps' = steps + 1

NoStoryChange == UNCHANGED <<stories, nextStoryId, issued>>
NoCommentChange == UNCHANGED <<comments, nextCommentId>>
\* No handler of the server touches the browser's board.
Fixed == UNCHANGED <<backend, users, now, client>>

\* No board is open.
NoBoard ==
    [phase |-> "closed", user |-> NoUser, columns |-> <<>>, id |-> 0,
     from |-> "", to |-> "", sentAt |-> 0]

\* The spread written the other way round: { createdBy, updatedBy, ...req.body }
StampCreatorBodyWins(body, u) == Spread([createdBy |-> u, updatedBy |-> u], body)

\* { ...req.body, createdBy: req.user.id, updatedBy: req.user.id }
StampCreator(body, u) == Spread(body, [createdBy |-> u, updatedBy |-> u])

\* The spread written the other way round: { updatedBy, ...req.body }
StampEditorBodyWins(body, u) == Spread([updatedBy |-> Some(u)], body)

\* { ...req.body, updatedBy: req.user.id }
StampEditor(body, u) == Spread(body, [updatedBy |-> Some(u)])

\* { ...req.body, storyId, userId: req.user.id }
StampAuthor(body, storyId, u) == Spread(body, [storyId |-> storyId, userId |-> u])

\* The insert of a new story row and the 201 reply.
StoreStory(u, row) ==
    /\ stories' = Append(stories, row)
    /\ nextStoryId' = nextStoryId + 1
    /\ issued' = Append(issued, [project |-> row.project, number |-> Val(row.storyNumber)])
    /\ Reply("createStory", u, 201, row.id)

\* The INSERT of DatabaseStorage.createStory with the number its scan
\* computed; a constraint violation is the handler's 500.
DbInsertStory(u, story, storyNumber) ==
    LET row == DbNewStory(story, nextStoryId, storyNumber) IN
    IF StoryRowOk(row, stories, users)
    THEN StoreStory(u, row)
    ELSE Reply("createStory", u, 500, 0) /\ NoStoryChange

\* POST /api/stories
CreateStory(u, body) ==
    /\ Step /\ Fixed /\ NoCommentChange /\ UNCHANGED pending
    /\ IF RequireAuth(u) # 0
       THEN Reply("createStory", u, RequireAuth(u), 0) /\ NoStoryChange
       ELSE LET data == StampCreator(body, u) IN
            IF ~InsertStoryValid(data, now)
            THEN Reply("createStory", u, 400, 0) /\ NoStoryChange
            ELSE LET story == InsertStoryParse(data) IN
                 IF backend = "mem"
                 THEN StoreStory(u, MemNewStory(story, nextStoryId, stories))
                 ELSE DbInsertStory(u, story, NextStoryNumber(stories, ProjectOf(story)))

\* PATCH /api/stories/:id with a version check: an update of a story that
\* was changed since the clients read the seeded board is refused with 409.
PatchStoryIfUnchanged(u, id, body) ==
    /\ Step /\ Fixed /\ NoCommentChange /\ UNCHANGED <<pending, nextStoryId, issued>>
    /\ IF RequireAuth(u) # 0
       THEN Reply("patchStory", u, RequireAuth(u), 0) /\ UNCHANGED stories
       ELSE IF id \notin StoryIds(stories)
       THEN Reply("patchStory", u, 404, id) /\ UNCHANGED stories
       ELSE IF StoryById(stories, id) \notin Range(SeedStories(0))
       THEN Reply("patchStory", u, 409, id) /\ UNCHANGED stories
       ELSE /\ stories' = ReplaceId(stories, id,
                              MergeStory(StoryById(stories, id), StampEditor(body, u)))
            /\ Reply("patchStory", u, 200, id)

\* PATCH /api/stories/:id
PatchStory(u, id, body) ==
    /\ Step /\ Fixed /\ NoCommentChange /\ UNCHANGED <<pending, nextStoryId, issued>>
    /\ IF RequireAuth(u) # 0
       THEN Reply("patchStory", u, RequireAuth(u), 0) /\ UNCHANGED stories
       ELSE IF id \notin StoryIds(stories)
       THEN Reply("patchStory", u, 404, id) /\ UNCHANGED stories
       ELSE LET row == MergeStory(StoryById(stories, id), StampEditor(body, u)) IN
            IF backend = "db" /\ ~StoryRowOk(row, RemoveId(stories, id), users)
            THEN Reply("patchStory", u, 500, id) /\ UNCHANGED stories
            ELSE stories' = ReplaceId(stories, id, row) /\ Reply("patchStory", u, 200, id)

\* DELETE /api/stories/:id without the check of the store's answer.
DeleteStoryUnchecked(u, id) ==
    /\ Step /\ Fixed /\ NoCommentChange /\ UNCHANGED <<pending, nextStoryId, issued>>
    /\ IF RequireRole(u, StoryDeleteRoles) # 0
       THEN Reply("deleteStory", u, RequireRole(u, StoryDeleteRoles), 0) /\ UNCHANGED stories
       ELSE IF backend = "db" /\ ~StoryDeletable(comments, id)
       THEN Reply("deleteStory", u, 500, id) /\ UNCHANGED stories
       ELSE stories' = RemoveId(stories, id) /\ Reply("deleteStory", u, 200, id)

\* DELETE /api/stories/:id
DeleteStory(u, id) ==
    /\ Step /\ Fixed /\ NoCommentChange /\ UNCHANGED <<pending, nextStoryId, issued>>
    /\ IF RequireRole(u, StoryDeleteRoles) # 0
       THEN Reply("deleteStory", u, RequireRole(u, StoryDeleteRoles), 0) /\ UNCHANGED stories
       ELSE IF id \notin StoryIds(stories)
       THEN Reply("deleteStory", u, 404, id) /\ UNCHANGED stories
       ELSE IF backend = "db" /\ ~StoryDeletable(comments, id)
       THEN Reply("deleteStory", u, 500, id) /\ UNCHANGED stories
       ELSE stories' = RemoveId(stories, id) /\ Reply("deleteStory", u, 200, id)

\* POST /api/stories/:storyId/comments
CreateComment(u, storyId, body) ==
    /\ Step /\ Fixed /\ NoStoryChange /\ UNCHANGED pending
    /\ IF RequireAuth(u) # 0
       THEN Reply("createComment", u, RequireAuth(u), 0) /\ NoCommentChange
       ELSE LET data == StampAuthor(body, storyId, u) IN
            IF ~InsertCommentValid(data)
            THEN Reply("createComment", u, 400, 0) /\ NoCommentChange
            ELSE IF backend = "db" /\ storyId \notin StoryIds(stories)
            THEN Reply("createComment", u, 500, 0) /\ NoCommentChange
            ELSE /\ comments' = Append(comments,
                        [id |-> nextCommentId, storyId |-> data.storyId,
                         userId |-> data.userId, commentText |-> data.commentText])
                 /\ nextCommentId' = nextCommentId + 1
                 /\ Reply("createComment", u, 201, nextCommentId)

\* DELETE /api/comments/:id
DeleteComment(u, id) ==
    /\ Step /\ Fixed /\ NoStoryChange /\ UNCHANGED <<pending, nextCommentId>>
    /\ IF RequireAuth(u) # 0
       THEN Reply("deleteComment", u, RequireAuth(u), 0) /\ UNCHANGED comments
       ELSE IF id \notin CommentIds(comments)
       THEN Reply("deleteComment", u, 404, id) /\ UNCHANGED comments
       ELSE comments' = RemoveId(comments, id) /\ Reply("deleteComment", u, 200, id)

\* A handler that only reads the store behind requireAuth.
ReadOnly(op, u, gate, found, id) ==
    /\ Step /\ Fixed /\ NoStoryChange /\ NoCommentChange /\ UNCHANGED pending
    /\ IF gate # 0 THEN Reply(op, u, gate, 0)
       ELSE IF ~found THEN Reply(op, u, 404, id)
       ELSE Reply(op, u, 200, id)

\* GET /api/stories
ListStories(u) == ReadOnly("listStories", u, RequireAuth(u), TRUE, 0)

\* GET /api/stories/status/:status
ListStoriesByStatus(u) == ReadOnly("listStoriesByStatus", u, RequireAuth(u), TRUE, 0)

\* GET /api/stories/:id
GetStory(u, id) ==
    ReadOnly("getStory", u, RequireAuth(u), id \in StoryIds(stories), id)

\* GET /api/stories/:storyId/comments
ListComments(u, storyId) == ReadOnly("listComments", u, RequireAuth(u), TRUE, storyId)

\* GET /api/users
ListUsers(u) == ReadOnly("listUsers", u, RequireRole(u, UserListRoles), TRUE, 0)

\* GET /api/dashboard/metrics
DashboardMetrics(u) == ReadOnly("dashboardMetrics", u, RequireAuth(u), TRUE, 0)

\* String.prototype.includes(sub)
Includes(s, sub) ==
    \E i \in 0..(Len(s) - Len(sub)) : SubSeq(s, i + 1, i + Len(sub)) = sub

UpperCase == <<"A", "B", "C", "D", "E", "F", "G", "H", "I", "J", "K", "L", "M", "N", "O", "P", "Q", "R", "S", "T", "U", "V", "W", "X", "Y", "Z">>
LowerCase == <<"a", "b", "c", "d", "e", "f", "g", "h", "i", "j", "k", "l", "m", "n", "o", "p", "q", "r", "s", "t", "u", "v", "w", "x", "y", "z">>

\* String.prototype.toLowerCase()
ToLowerCase(s) ==
    [i \in DOMAIN s |->
        IF \E k \in DOMAIN UpperCase : UpperCase[k] = s[i]
        THEN LowerCase[CHOOSE k \in DOMAIN UpperCase : UpperCase[k] = s[i]]
        ELSE s[i]]

KwCritical == <<"c", "r", "i", "t", "i", "c", "a", "l">>
KwUrgent == <<"u", "r", "g", "e", "n", "t">>
KwBug == <<"b", "u", "g">>
KwSecurity == <<"s", "e", "c", "u", "r", "i", "t", "y">>
KwNice == <<"n", "i", "c", "e">>
KwEnhancement == <<"e", "n", "h", "a", "n", "c", "e", "m", "e", "n", "t">>
KwImprovement == <<"i", "m", "p", "r", "o", "v", "e", "m", "e", "n", "t">>

\* estimatedPointer from contentLength = (title + description).length
EstimatedPointer(contentLength) ==
    IF contentLength > 200 THEN 13
    ELSE IF contentLength > 100 THEN 8
    ELSE IF contentLength > 50 THEN 5
    ELSE 3

\* prioritySuggestion
PrioritySuggestion(title, description) ==
    LET titleLower == ToLowerCase(title)
        descLower == ToLowerCase(description)
    IN IF \/ Includes(titleLower, KwCritical) \/ Includes(titleLower, KwUrgent)
          \/ Includes(descLower, KwBug) \/ Includes(descLower, KwSecurity)
       THEN "High"
       ELSE IF \/ Includes(titleLower, KwNice) \/ Includes(titleLower, KwEnhancement)
               \/ Includes(descLower, KwImprovement)
       THEN "Low"
       ELSE "Medium"

\* POST /api/stories/ai-estimate: a body without title or description makes
\* toLowerCase throw, which the handler answers with 500.
AiEstimate(u, body) ==
    /\ Step /\ Fixed /\ NoStoryChange /\ NoCommentChange /\ UNCHANGED pending
    /\ IF RequireAuth(u) # 0 THEN Reply("aiEstimate", u, RequireAuth(u), 0)
       ELSE IF ~(Has(body, "title") /\ Has(body, "description"))
       THEN Reply("aiEstimate", u, 500, 0)
       ELSE response' =
              [op |-> "aiEstimate", user |-> u, status |-> 200, id |-> 0,
               title |-> body.title, description |-> body.description,
               estimatedPointer |->
                   EstimatedPointer(Len(body.title \o body.description)),
               prioritySuggestion |->
                   PrioritySuggestion(body.title, body.description)]

\* The passing of time between requests.
Tick ==
    /\ Step
    /\ now' = now + 1
    /\ UNCHANGED <<backend, users, stories, comments, nextStoryId, nextCommentId,
                   pending, issued, response, client>>

-----------------------------------------------------------------------------
(* Request inputs *)

ActingUsers == {NoUser, 1, 2, 5}

\* Story ids named in requests: the commented seed story, the seed story with
\* the highest T&D number, and the first id handed to a created story.
StoryTargets == {1, 5, 6}

\* Story ids named in read and comment requests.
ReadTargets == {1, 6}

CommentTargets == {1, 3}

CreateBodies ==
    { [title |-> "X"],
      [title |-> "X", project |-> RD],
      [title |-> "X", status |-> "Done", createdBy |-> 4, updatedBy |-> 4],
      [title |-> "X", dueDate |-> 0 - 1],
      [title |-> "X", dueDate |-> 0],
      [title |-> "X", dueDate |-> 3],
      [project |-> TD] }

PatchBodies ==
    { [status |-> "Completed"],
      [status |-> "Done", createdBy |-> 4, updatedBy |-> Some(4)],
      [storyNumber |-> Some(NumberText(TD, <<"1", "0", "0", "1">>))],
      [project |-> ADMS] }

\* x repeated n times.
Filler(n) == [i \in 1..n |-> "x"]

\* The estimate request of the story form: a title and an empty description.
FormBody == [title |-> <<"f", "i", "x">>, description |-> <<>>]

EstimateTitles ==
    { <<"f", "i", "x">>,
      <<"C", "r", "i", "t", "i", "c", "a", "l">>,
      <<"l", "o", "g", "i", "n", " ", "b", "u", "g">>,
      <<"u", "r", "g", "e", "n", "t", " ", "n", "i", "c", "e">>,
      <<"n", "i", "c", "e">>,
      <<"i", "m", "p", "r", "o", "v", "e", "m", "e", "n", "t">> }

EstimateDescriptions ==
    { <<>>,
      <<"d", "e", "b", "u", "g">>,
      <<"c", "r", "i", "t", "i", "c", "a", "l">>,
      <<"i", "m", "p", "r", "o", "v", "e", "m", "e", "n", "t">>,
      Filler(48), Filler(101), Filler(201) }

EstimateBodies ==
    {[title |-> t, description |-> d] : t \in EstimateTitles, d \in EstimateDescriptions}
        \cup {[title |-> t] : t \in EstimateTitles}

CommentBodies == { [commentText |-> "note"], [mention |-> "@admin"] }

-----------------------------------------------------------------------------
(* Specification: requests steps one at a time *)

Init ==
    /\ backend \in {"mem", "db"}
    /\ users = SeedUsers
    /\ now = 0
    /\ stories = SeedStories(now)
    /\ comments = SeedComments
    /\ nextStoryId = 6
    /\ nextCommentId = 3
    /\ steps = 0
    /\ pending = <<>>
    /\ issued = [i \in 1..5 |-> [project |-> SeedStories(0)[i].project,
                                 number |-> Val(SeedStories(0)[i].storyNumber)]]
    /\ response = [op |-> "none", user |-> NoUser, status |-> 0, id |-> 0]
    /\ client = NoBoard

Next ==
    \/ \E u \in ActingUsers, body \in CreateBodies : CreateStory(u, body)
    \/ \E u \in ActingUsers, id \in StoryTargets, body \in PatchBodies : PatchStory(u, id, body)
    \/ \E u \in ActingUsers, id \in StoryTargets : DeleteStory(u, id)
    \/ \E u \in ActingUsers, id \in ReadTargets, body \in CommentBodies : CreateComment(u, id, body)
    \/ \E u \in ActingUsers, id \in CommentTargets : DeleteComment(u, id)
    \/ \E u \in ActingUsers : ListStories(u)
    \/ \E u \in ActingUsers : ListStoriesByStatus(u)
    \/ \E u \in ActingUsers, id \in ReadTargets : GetStory(u, id)
    \/ \E u \in ActingUsers : ListComments(u, 1)
    \/ \E u \in ActingUsers : ListUsers(u)
    \/ \E u \in ActingUsers : DashboardMetrics(u)
    \/ \E u \in ActingUsers : AiEstimate(u, FormBody)
    \/ Tick

Spec == Init /\ [][Next]_vars

-----------------------------------------------------------------------------
(* Specification: create requests of the database back end in two steps *)

(* DatabaseStorage.createStory awaits the SELECT of the existing numbers and  *)
(* then the INSERT, so other requests run between the two.  pending holds   *)
(* one record per such request: status 0 between its scan and its insert,   *)
(* afterwards the status it answered with; raced tells that another create  *)
(* of the same project was inserted between its scan and its insert.        *)
(* MemStorage.createStory has no await, so it stays one step.               *)

\* POST /api/stories up to the end of the SELECT.
BeginCreateStory(u, body) ==
    /\ backend = "db"
    /\ Step /\ Fixed /\ NoCommentChange /\ NoStoryChange
    /\ IF RequireAuth(u) # 0
       THEN Reply("createStory", u, RequireAuth(u), 0) /\ UNCHANGED pending
       ELSE LET data == StampCreator(body, u) IN
            IF ~InsertStoryValid(data, now)
            THEN Reply("createStory", u, 400, 0) /\ UNCHANGED pending
            ELSE LET story == InsertStoryParse(data) IN
                 /\ pending' = Append(pending,
                        [user |-> u, story |-> story,
                         storyNumber |-> NextStoryNumber(stories, ProjectOf(story)),
                         status |-> 0, id |-> 0, raced |-> FALSE])
                 /\ UNCHANGED response

\* POST /api/stories from the INSERT on.
FinishCreateStory(i) ==
    /\ pending[i].status = 0
    /\ Fixed /\ NoCommentChange /\ UNCHANGED steps
    /\ DbInsertStory(pending[i].user, pending[i].story, pending[i].storyNumber)
    /\ pending' = [j \in DOMAIN pending |->
          IF j = i
          THEN [pending[i] EXCEPT !.status = response'.status, !.id = response'.id]
          ELSE IF /\ pending[j].status = 0
                  /\ response'.status = 201
                  /\ ProjectOf(pending[j].story) = ProjectOf(pending[i].story)
               THEN [pending[j] EXCEPT !.raced = TRUE]
               ELSE pending[j]]

NextRace ==
    \/ \E u \in ActingUsers, body \in CreateBodies : backend = "mem" /\ CreateStory(u, body)
    \/ \E u \in ActingUsers, body \in CreateBodies : BeginCreateStory(u, body)
    \/ \E i \in DOMAIN pending : FinishCreateStory(i)
    \/ \E u \in ActingUsers, id \in StoryTargets, body \in PatchBodies : PatchStory(u, id, body)
    \/ \E u \in ActingUsers, id \in StoryTargets : DeleteStory(u, id)

SpecRace == Init /\ [][NextRace]_vars

-----------------------------------------------------------------------------
(* Specification: the board, its column moves, edits and dashboard *)

\* The columns of the board.
COLUMN_NAMES == <<"Backlog", "To Do", "In Progress", "Blocked", "Validation", "Completed">>

\* The principals working on the board: a Team Lead and a User.
BoardUsers == {2, 5}

\* The stories edited on the board: the commented seed story and the seed
\* story with the highest T&D number.
BoardTargets == {1, 5}

BoardCreateBodies ==
    { [title |-> "X", status |-> "__proto__"],
      [title |-> "X", pointer |-> 2],
      [title |-> "X", status |-> "Backlog", priority |-> "Low"] }

\* onDragEnd: updates: { status: destination.droppableId }
MoveBody(target) == [status |-> target]

\* The patches sent from the board: a move to each column, an edit of two
\* fields, and a due date two days before the construction instant.
BoardPatchBodies ==
    {MoveBody(COLUMN_NAMES[i]) : i \in DOMAIN COLUMN_NAMES}
        \cup { [status |-> "In Progress", priority |-> "Low"],
               [dueDate |-> Some(0 - 4)] }

\* The columns of the board recomputed from a story list:
\* COLUMN_NAMES.reduce((acc, status) => { acc[status] = stories.filter(...) }, {})
BoardColumns(sts) ==
    [status \in Range(COLUMN_NAMES) |-> SelectSeq(sts, LAMBDA story : story.status = status)]

\* The footer of the board: Total: {stories?.length || 0}
FooterTotal(sts) == Len(sts)

NextBoard ==
    \/ \E u \in BoardUsers, body \in BoardCreateBodies : CreateStory(u, body)
    \/ \E u \in BoardUsers, id \in BoardTargets, body \in BoardPatchBodies :
          PatchStory(u, id, body)
    \/ \E u \in BoardUsers, id \in BoardTargets : DeleteStory(u, id)
    \/ \E u \in BoardUsers : DashboardMetrics(u)

SpecBoard == Init /\ [][NextBoard]_vars

-----------------------------------------------------------------------------
(* Specification: the estimate operation over its titles and descriptions *)

NextEstimate == \E u \in ActingUsers, body \in EstimateBodies : AiEstimate(u, body)

SpecEstimate == Init /\ [][NextEstimate]_vars

-----------------------------------------------------------------------------
(* Specification: registration, its look-up and its insert as two steps *)

(* POST /api/register awaits getUserByUsername, then hashPassword, then       *)
(* createUser, so other registrations run between the look-up and the       *)
(* insert.  pending holds one record per registration: status 0 between the *)
(* two, afterwards the status it answered with.                             *)

\* bcrypt.hash(password, 10): the stored text is a hash, not the password.
HashPassword(password) == IF password = "pw1" THEN "$2b$10$h1" ELSE "$2b$10$h2"

\* getUserByUsername: the stored users of that name.
GetUserByUsername(us, username) == {r \in Range(us) : r.username = username}

\* createUser: the stored row; the role defaults to "User".
NewUser(insertUser, id) ==
    [id |-> id, username |-> insertUser.username, email |-> insertUser.email,
     password |-> insertUser.password, role |-> StrOr(insertUser, "role", "User")]

\* The constraints of the users table: username and email are unique.
UserRowOk(row, others) ==
    \A o \in Range(others) : o.username # row.username /\ o.email # row.email

RegisterBodies ==
    { [username |-> "nina", email |-> "nina@project.com", password |-> "pw1"],
      [username |-> "nina", email |-> "n2@project.com", password |-> "pw2"],
      [username |-> "admin", email |-> "root@project.com", password |-> "pw1"],
      [username |-> "omar", email |-> "admin@project.com", password |-> "pw1",
       role |-> "Admin"] }

\* POST /api/register up to the end of the look-up and of the hashing.
BeginRegister(body) ==
    /\ Step /\ Fixed /\ NoStoryChange /\ NoCommentChange
    /\ IF GetUserByUsername(users, body.username) # {}
       THEN Reply("register", NoUser, 400, 0) /\ UNCHANGED pending
       ELSE /\ pending' = Append(pending,
                    [insertUser |-> Spread(body, [password |-> HashPassword(body.password)]),
                     status |-> 0, id |-> 0])
            /\ UNCHANGED response

\* POST /api/register from createUser on.  A row the database refuses makes
\* createUser reject, which the handler does not catch: the request is not
\* answered with 201 (500 here) and stores nothing.  After the insert
\* req.login makes the new user the session principal.
FinishRegister(i) ==
    /\ pending[i].status = 0
    /\ UNCHANGED <<backend, now, steps, client>> /\ NoStoryChange /\ NoCommentChange
    /\ LET row == NewUser(pending[i].insertUser, Len(users) + 1) IN
       IF backend = "db" /\ ~UserRowOk(row, users)
       THEN Reply("register", NoUser, 500, 0) /\ UNCHANGED users
       ELSE users' = Append(users, row) /\ Reply("register", row.id, 201, row.id)
    /\ pending' = [pending EXCEPT ![i].status = response'.status,
                                  ![i].id = response'.id]

NextAuth ==
    \/ \E body \in RegisterBodies : BeginRegister(body)
    \/ \E i \in DOMAIN pending : FinishRegister(i)

SpecAuth == Init /\ [][NextAuth]_vars

-----------------------------------------------------------------------------
(* Specification: registration, login and what a session may do and read *)

\* bcrypt.compare of a supplied password with a stored hash; the seeded
\* users' hash is that of "admin123".
ComparePasswords(supplied, stored) ==
    \/ stored = HashPassword(supplied)
    \/ supplied = "admin123" /\ stored = SeedUsers[1].password

\* getUserByUsername as the strategy reads it: the first stored user of that
\* name, as a set that is empty when there is none.
FindByUsername(us, username) ==
    LET m == {i \in DOMAIN us : us[i].username = username} IN
    IF m = {} THEN {} ELSE {us[CHOOSE i \in m : \A j \in m : i <= j]}

\* POST /api/login: passport's local strategy, then json(req.user).
Login(cred) ==
    /\ Step /\ Fixed /\ NoStoryChange /\ NoCommentChange /\ UNCHANGED pending
    /\ LET found == FindByUsername(users, cred.username) IN
       IF found = {} THEN Reply("login", NoUser, 401, 0)
       ELSE LET user == CHOOSE r \in found : TRUE IN
            IF ~ComparePasswords(cred.password, user.password)
            THEN Reply("login", NoUser, 401, 0)
            ELSE Reply("login", user.id, 200, user.id)

\* GET /api/user
CurrentUser(u) ==
    ReadOnly("currentUser", u, IF IsAuthenticated(u) THEN 0 ELSE 401, TRUE, u)

\* const { password, ...safeUser } = user
SafeUser(user) == [f \in (DOMAIN user) \ {"password"} |-> user[f]]

\* storage.getUser: the stored user of that id, as a set that is empty when
\* there is none (undefined is left out of the JSON).
UserOrNone(us, id) == {r \in Range(us) : r.id = id}

\* The user objects in a story as the storage returns it: ...story, assignee,
\* createdByUser.
StoryJsonUsers(us, story) ==
    (IF Truthy(story.assigneeId) THEN UserOrNone(us, Val(story.assigneeId)) ELSE {})
        \cup UserOrNone(us, story.createdBy)

\* The user objects in the comments of a story as the storage returns them:
\* { ...comment, user }.
CommentsJsonUsers(cs, us, storyId) ==
    UNION {UserOrNone(us, c.userId) : c \in {r \in Range(cs) : r.storyId = storyId}}

\* The user objects serialised in the body of the last answer.  Each handler
\* hands to res.json what the storage returned from the store its step leaves
\* behind; only the user listing strips the password first.
UsersSent ==
    IF response.status \notin {200, 201} THEN {}
    ELSE CASE response.op = "register" -> UserOrNone(users, response.id)
           [] response.op \in {"login", "currentUser"} -> UserOrNone(users, response.user)
           [] response.op = "listUsers" -> {SafeUser(r) : r \in Range(users)}
           [] response.op \in {"listStories", "listStoriesByStatus"} ->
                  UNION {StoryJsonUsers(users, r) : r \in Range(stories)}
           [] response.op = "getStory" ->
                  StoryJsonUsers(users, StoryById(stories, response.id))
           [] response.op = "listComments" ->
                  CommentsJsonUsers(comments, users, response.id)
           [] OTHER -> {}

\* Session principals: nobody, the seeded Admin, a seeded User, and the first
\* user that registers.
SessionUsers == {NoUser, 1, 5, Len(SeedUsers) + 1}

SessionRegisterBodies ==
    { [username |-> "nina", email |-> "nina@project.com", password |-> "pw1"],
      [username |-> "mallory", email |-> "mallory@project.com", password |-> "pw1",
       role |-> "Admin"],
      [username |-> "admin", email |-> "root@project.com", password |-> "pw1"] }

Credentials ==
    { [username |-> "admin", password |-> "admin123"],
      [username |-> "nina", password |-> "pw1"],
      [username |-> "mallory", password |-> "pw2"] }

NextSession ==
    \/ \E body \in SessionRegisterBodies : BeginRegister(body)
    \/ \E i \in DOMAIN pending : FinishRegister(i)
    \/ \E cred \in Credentials : Login(cred)
    \/ \E u \in SessionUsers : CurrentUser(u)
    \/ \E u \in SessionUsers : ListUsers(u)
    \/ \E u \in SessionUsers : ListStories(u)
    \/ \E u \in SessionUsers, id \in ReadTargets : GetStory(u, id)
    \/ \E u \in SessionUsers, id \in ReadTargets : ListComments(u, id)
    \/ \E u \in SessionUsers, id \in BoardTargets : DeleteStory(u, id)

SpecSession == Init /\ [][NextSession]_vars

-----------------------------------------------------------------------------
(* The storage operations as functions of the back end *)

\* What a storage operation leaves behind and the status its handler answers.
Outcome(status, sts, cs) == [status |-> status, stories |-> sts, comments |-> cs]

\* createStory of back end b for a parsed request, answered by POST /api/stories.
CreateStoryOn(b, sts, cs, us, story, id) ==
    LET row == IF b = "mem" THEN MemNewStory(story, id, sts)
               ELSE DbNewStory(story, id, NextStoryNumber(sts, ProjectOf(story)))
    IN IF b = "db" /\ ~StoryRowOk(row, sts, us)
       THEN Outcome(500, sts, cs)
       ELSE Outcome(201, Append(sts, row), cs)

\* updateStory of back end b, answered by PATCH /api/stories/:id.
UpdateStoryOn(b, sts, cs, us, id, updates) ==
    IF id \notin StoryIds(sts) THEN Outcome(404, sts, cs)
    ELSE LET row == MergeStory(StoryById(sts, id), updates) IN
         IF b = "db" /\ ~StoryRowOk(row, RemoveId(sts, id), us)
         THEN Outcome(500, sts, cs)
         ELSE Outcome(200, ReplaceId(sts, id, row), cs)

\* deleteStory of back end b, answered by DELETE /api/stories/:id.
DeleteStoryOn(b, sts, cs, id) ==
    IF id \notin StoryIds(sts) THEN Outcome(404, sts, cs)
    ELSE IF b = "db" /\ ~StoryDeletable(cs, id) THEN Outcome(500, sts, cs)
    ELSE Outcome(200, RemoveId(sts, id), cs)

\* createComment of back end b, answered by POST /api/stories/:storyId/comments.
CreateCommentOn(b, sts, cs, data, id) ==
    IF b = "db" /\ data.storyId \notin StoryIds(sts) THEN Outcome(500, sts, cs)
    ELSE Outcome(201, sts, Append(cs, [id |-> id, storyId |-> data.storyId,
                                       userId |-> data.userId,
                                       commentText |-> data.commentText]))

\* deleteComment of back end b, answered by DELETE /api/comments/:id.
DeleteCommentOn(b, sts, cs, id) ==
    IF id \notin CommentIds(cs) THEN Outcome(404, sts, cs)
    ELSE Outcome(200, sts, RemoveId(cs, id))

-----------------------------------------------------------------------------
(* Specification: the allocator over boards with absent and malformed numbers *)

\* The store after one update of the story id by principal u.
Patched(sts, id, body, u) ==
    ReplaceId(sts, id, MergeStory(StoryById(sts, id), StampEditor(body, u)))

\* A story number without a numeric part: "T&D-x".
MalformedNumber == <<"T", "&", "D", "-", "x">>

\* The boards the allocator scans: the seeded board, and the seeded board
\* after an update that removed a story's number, replaced it by text without
\* a numeric part, or moved the story numberless into the project "R-D".
NumberBoards ==
    { SeedStories(0),
      Patched(SeedStories(0), 5, [storyNumber |-> Null], 1),
      Patched(SeedStories(0), 2, [storyNumber |-> Some(MalformedNumber)], 1),
      Patched(SeedStories(0), 4, [storyNumber |-> Null], 1),
      Patched(SeedStories(0), 5, [project |-> RD, storyNumber |-> Null], 1) }

NumberCreateBodies ==
    { [title |-> "X"],
      [title |-> "X", project |-> ADMS],
      [title |-> "X", project |-> RD] }

InitNumbers ==
    /\ backend \in {"mem", "db"}
    /\ users = SeedUsers
    /\ now = 0
    /\ stories \in NumberBoards
    /\ comments = SeedComments
    /\ nextStoryId = 6
    /\ nextCommentId = 3
    /\ steps = 0
    /\ pending = <<>>
    /\ issued = [i \in 1..5 |-> [project |-> SeedStories(0)[i].project,
                                 number |-> Val(SeedStories(0)[i].storyNumber)]]
    /\ response = [op |-> "none", user |-> NoUser, status |-> 0, id |-> 0]
    /\ client = NoBoard

NextNumbers == \E u \in BoardUsers, body \in NumberCreateBodies : CreateStory(u, body)

SpecNumbers == InitNumbers /\ [][NextNumbers]_vars

-----------------------------------------------------------------------------
(* Specification: one board in a browser, dragging stories between columns *)

\* wipLimits: the limit of each column; 0 stands for no limit.
WipLimits ==
    [c \in Range(COLUMN_NAMES) |->
        CASE c = "To Do" -> 5
          [] c = "In Progress" -> 3
          [] c = "Blocked" -> 2
          [] c = "Validation" -> 3
          [] OTHER -> 0]

\* isWipLimitExceeded(columnName) over the local columns.
IsWipLimitExceeded(columns, columnName) ==
    LET limit == WipLimits[columnName] IN
    IF limit = 0 THEN FALSE ELSE Len(columns[columnName]) >= limit

\* array.splice(i, 1) and array.splice(i, 0, x), i counted from 0.
RemoveAt(seq, i) == SubSeq(seq, 1, i) \o SubSeq(seq, i + 2, Len(seq))
InsertAt(seq, i, x) == SubSeq(seq, 1, i) \o <<x>> \o SubSeq(seq, i + 1, Len(seq))

\* The cards on the board: the ids of the stories in the local columns.
CardIds(columns) ==
    UNION {{columns[c][k].id : k \in DOMAIN columns[c]} : c \in DOMAIN columns}

\* source.droppableId and source.index of a card.
SourceOf(columns, id) ==
    CHOOSE c \in DOMAIN columns : \E k \in DOMAIN columns[c] : columns[c][k].id = id
SourceIndex(columns, id) ==
    (CHOOSE k \in DOMAIN columns[SourceOf(columns, id)] :
        columns[SourceOf(columns, id)][k].id = id) - 1

\* newColumns of onDragEnd: the card is taken out of its column and put into
\* the destination column at the destination index.
Dropped(columns, id, to, index) ==
    LET from == SourceOf(columns, id)
        si == SourceIndex(columns, id)
        removed == columns[from][si + 1]
        startColumn == RemoveAt(columns[from], si)
    IN IF from = to
       THEN [columns EXCEPT ![from] = InsertAt(startColumn, index, removed)]
       ELSE [columns EXCEPT ![from] = startColumn,
                            ![to] = InsertAt(columns[to], index, removed)]

\* The server's variables, which no step of the browser changes.
ServerKept ==
    UNCHANGED <<backend, users, stories, comments, nextStoryId, nextCommentId,
                now, steps, pending, issued, response>>

\* onDragEnd that refuses a drop into a column at or over its limit.
OnDragEndWipChecked(id, to, index) ==
    /\ client.phase = "loaded"
    /\ id \in CardIds(client.columns)
    /\ ~IsWipLimitExceeded(client.columns, to)
    /\ LET from == SourceOf(client.columns, id)
           si == SourceIndex(client.columns, id)
       IN /\ ~(from = to /\ si = index)
          /\ index <= Len(IF from = to THEN RemoveAt(client.columns[from], si)
                          ELSE client.columns[to])
          /\ client' = [client EXCEPT !.phase = "sent",
                                      !.columns = Dropped(client.columns, id, to, index),
                                      !.id = id, !.from = from, !.to = to,
                                      !.sentAt = steps]
    /\ ServerKept

\* onDragEnd with a destination: nothing happens when the card is dropped
\* where it was; otherwise the local columns are updated at once and
\* updateStoryMutation.mutate sends PATCH { status: destination.droppableId }.
OnDragEnd(id, to, index) ==
    /\ client.phase = "loaded"
    /\ id \in CardIds(client.columns)
    /\ LET from == SourceOf(client.columns, id)
           si == SourceIndex(client.columns, id)
       IN /\ ~(from = to /\ si = index)
          /\ index <= Len(IF from = to THEN RemoveAt(client.columns[from], si)
                          ELSE client.columns[to])
          /\ client' = [client EXCEPT !.phase = "sent",
                                      !.columns = Dropped(client.columns, id, to, index),
                                      !.id = id, !.from = from, !.to = to,
                                      !.sentAt = steps]
    /\ ServerKept

\* The server handles the PATCH the board has in flight.
ServeMove ==
    /\ client.phase = "sent" /\ steps = client.sentAt
    /\ PatchStory(client.user, client.id, MoveBody(client.to))

\* apiRequest rejects when the answer is not a 2xx: the error outcomes are
\* surfaced to the caller.
ApiRequestThrows(status) == status \notin 200..299

\* updateStoryMutation settles.  onSuccess invalidates the story query; there
\* is no onError, so after a rejected request the board is left as it is.
Settle ==
    /\ client.phase = "sent" /\ steps = client.sentAt + 1
    /\ client' = [client EXCEPT
                    !.phase = IF ApiRequestThrows(response.status) THEN "failed"
                              ELSE "stale"]
    /\ ServerKept

\* The invalidated story query is fetched again and the effect recomputes
\* the columns from the stories the server returned.
Refetch ==
    /\ client.phase = "stale"
    /\ client' = [client EXCEPT !.phase = "loaded", !.columns = BoardColumns(stories)]
    /\ ServerKept

\* The boards a browser opens: the seeded one, and the seeded one after
\* stories 1 and 2 were moved to Blocked or to In Progress, which fills
\* that column to its limit.
ClientBoards ==
    { SeedStories(0),
      Patched(Patched(SeedStories(0), 1, MoveBody("Blocked"), 2),
              2, MoveBody("Blocked"), 2),
      Patched(Patched(SeedStories(0), 1, MoveBody("In Progress"), 2),
              2, MoveBody("In Progress"), 2) }

\* destination.index
DropIndexes == {0, 1}

InitClient ==
    /\ backend \in {"mem", "db"}
    /\ users = SeedUsers
    /\ now = 0
    /\ stories \in ClientBoards
    /\ comments = SeedComments
    /\ nextStoryId = 6
    /\ nextCommentId = 3
    /\ steps = 0
    /\ pending = <<>>
    /\ issued = [i \in 1..5 |-> [project |-> SeedStories(0)[i].project,
                                 number |-> Val(SeedStories(0)[i].storyNumber)]]
    /\ response = [op |-> "none", user |-> NoUser, status |-> 0, id |-> 0]
    /\ \E u \in BoardUsers :
          client = [NoBoard EXCEPT !.phase = "loaded", !.user = u,
                                   !.columns = BoardColumns(stories)]

NextClient ==
    \/ \E id \in BoardTargets, to \in Range(COLUMN_NAMES), index \in DropIndexes :
          OnDragEnd(id, to, index)
    \/ ServeMove
    \/ Settle
    \/ Refetch
    \/ \E u \in BoardUsers, id \in BoardTargets :
          client.phase = "loaded" /\ DeleteStory(u, id)

\* The server answers the request it was sent, the mutation settles, and an
\* invalidated query of a mounted board is fetched again.
SpecClient ==
    /\ InitClient /\ [][NextClient]_vars
    /\ WF_vars(ServeMove) /\ WF_vars(Settle) /\ WF_vars(Refetch)

-----------------------------------------------------------------------------
(* Properties *)

\* A step that serves a request of the given kind.
Served(op) == steps' = steps + 1 /\ now' = now /\ response'.op = op

\* The numeric suffix of a story number: the digits after its last '-'.
NumericSuffix(number) ==
    LET parts == Split(number, "-") IN ParseInt(parts[Len(parts)])

\* The day an instant falls in.
Day(t) == t \div 2

\* C1: no two stored stories of the same project carry the same story number.
C1_UniquePerProject ==
    \A s \in Range(stories), t \in Range(stories) :
        (s.id # t.id /\ s.project = t.project /\ ~IsNull(s.storyNumber))
            => s.storyNumber # t.storyNumber

\* C2: within one project the numbers handed out are strictly increasing in
\* the order they were handed out, so none is handed out twice.
C2_StrictlyIncreasing ==
    \A i \in DOMAIN issued, j \in DOMAIN issued :
        (i < j /\ issued[i].project = issued[j].project)
            => NumericSuffix(issued[i].number) < NumericSuffix(issued[j].number)

\* C3: an update leaves createdBy and the story number of the story as they were.
C3_UpdateKeepsIdentity ==
    [][Served("patchStory") =>
          \A s \in Range(stories), t \in Range(stories') :
              s.id = t.id => (s.createdBy = t.createdBy /\ s.storyNumber = t.storyNumber)]_vars

\* C4: the status of every stored story is one of the six enumerated values.
C4_StatusEnumerated == \A s \in Range(stories) : s.status \in Range(COLUMN_NAMES)

\* C5: deleting a stored story succeeds and removes it for an Admin or a Team
\* Lead; for a User it answers 403 and the stories stay as they were.
C5_DeleteByRole ==
    [][\A u \in ActingUsers, id \in StoryTargets :
          (DeleteStory(u, id) /\ IsAuthenticated(u) /\ id \in StoryIds(stories)) =>
              IF RoleOf(u) \in {"Admin", "Team Lead"}
              THEN response'.status = 200 /\ id \notin StoryIds(stories')
              ELSE response'.status = 403 /\ stories' = stories]_vars

\* C6: deleting a stored comment as a principal who is neither its author nor
\* an Admin answers 403 and leaves the comment stored.
C6_CommentDeleteForbidden ==
    [][\A u \in ActingUsers, id \in CommentTargets :
          (/\ DeleteComment(u, id) /\ IsAuthenticated(u)
           /\ id \in CommentIds(comments)
           /\ CommentById(comments, id).userId # u
           /\ RoleOf(u) # "Admin") =>
              (response'.status = 403 /\ comments' = comments)]_vars

\* C7 as stated: when two interleaved creates computed the same number and
\* both ran their insert, both stories are persisted carrying that number.
C7_RaceDuplicates ==
    \A i \in DOMAIN pending, j \in DOMAIN pending :
        (/\ i # j
         /\ pending[i].raced /\ pending[i].status # 0
         /\ pending[j].status = 201 /\ pending[j].id \in StoryIds(stories)
         /\ pending[j].storyNumber = pending[i].storyNumber) =>
            /\ pending[i].status = 201
            /\ pending[i].id \in StoryIds(stories)
            /\ StoryById(stories, pending[i].id).storyNumber = Some(pending[i].storyNumber)

\* C7 as amended: in the database no two stored stories carry the same story
\* number, whatever the interleaving of the create requests.
C7_DbNumbersUnique ==
    backend = "db" =>
        \A s \in Range(stories), t \in Range(stories) :
            (s.id # t.id /\ ~IsNull(s.storyNumber)) => s.storyNumber # t.storyNumber

\* Two creates computed the same number; the one inserted second was refused.
C7_RaceLost ==
    \E i \in DOMAIN pending, j \in DOMAIN pending :
        /\ i # j
        /\ pending[i].raced /\ pending[i].status = 500
        /\ pending[j].status = 201 /\ pending[j].id \in StoryIds(stories)
        /\ pending[j].storyNumber = pending[i].storyNumber

\* C8: an authenticated, titled create whose due date lies on a day before
\* today answers 400 and stores and numbers nothing; with a due date of today
\* or later, or none, it answers 201 and the story is stored.
C8_DueDateGate ==
    [][\A u \in ActingUsers, body \in CreateBodies :
          (CreateStory(u, body) /\ IsAuthenticated(u) /\ Has(body, "title")) =>
              IF Has(body, "dueDate") /\ Day(body.dueDate) < Day(now)
              THEN /\ response'.status = 400
                   /\ stories' = stories /\ issued' = issued
              ELSE /\ response'.status = 201
                   /\ response'.id \in StoryIds(stories')]_vars

\* C9: a request without a session principal answers 401, also where a role
\* is required, and leaves users, stories and comments as they were.
C9_Unauthorized ==
    [][(steps' = steps + 1 /\ now' = now /\ response'.user = NoUser) =>
          (response'.status = 401 /\ store' = store)]_vars

\* A role-gated request without a session principal was answered.
C9_AnonymousDelete ==
    response.op = "deleteStory" /\ response.user = NoUser /\ response.status = 401

\* C10: after a successful create the stored story names the acting principal
\* as createdBy and as updatedBy.
C10_CreatorStamped ==
    (response.op = "createStory" /\ response.status = 201) =>
        LET s == StoryById(stories, response.id) IN
        s.createdBy = response.user /\ s.updatedBy = Some(response.user)

\* A create whose body named another user as creator and editor succeeded.
C10_SpoofedCreate ==
    /\ response.op = "createStory" /\ response.status = 201 /\ response.user = 5
    /\ StoryById(stories, response.id).status = "Done"

\* C11: a successful create whose body names none of status, priority,
\* storyType, pointer and activeSprint stores a story with status "To Do",
\* priority "Medium", type "Story", 1 point and sprint "sprint-1".
C11_CreateDefaults ==
    [][\A u \in ActingUsers, body \in CreateBodies :
          (/\ CreateStory(u, body) /\ response'.status = 201
           /\ (DOMAIN body) \cap {"status", "priority", "storyType",
                                  "pointer", "activeSprint"} = {}) =>
              LET s == StoryById(stories', response'.id) IN
              /\ s.status = "To Do" /\ s.priority = "Medium"
              /\ s.storyType = "Story" /\ s.pointer = Some(1)
              /\ s.activeSprint = Some("sprint-1")]_vars

\* The sum of f over the set S.
RECURSIVE SumOver(_, _)
SumOver(f, S) ==
    IF S = {} THEN 0
    ELSE LET x == CHOOSE y \in S : TRUE IN f[x] + SumOver(f, S \ {x})

\* The points a stored story counts for: its pointer, nothing when it has none.
PointsOf(s) == IF IsNull(s.pointer) THEN 0 ELSE Val(s.pointer)

\* C12: the dashboard's totalStories is completed plus the counts of every
\* other status, totalPoints is the sum of the points of the stored stories,
\* and completed is 0 when no stored story is Completed.
C12_MetricsAddUp ==
    LET m == GetDashboardMetrics(stories, users) IN
    /\ m.totalStories
          = m.completed + SumOver(m.storiesByStatus,
                                  (DOMAIN m.storiesByStatus) \ {"Completed"})
    /\ m.totalPoints = SumOver([i \in DOMAIN stories |-> PointsOf(stories[i])],
                               DOMAIN stories)
    /\ (\A s \in Range(stories) : s.status # "Completed") => m.completed = 0

\* The columns of a board that list the story with the given id.
ColumnsListing(board, id) ==
    {c \in DOMAIN board : \E k \in DOMAIN board[c] : board[c][k].id = id}

\* C13: after a completed move of a story to column B the stored story's
\* status is B, and the board recomputed from the stored stories lists the
\* story in column B and in no other column.
C13_MoveLands ==
    [][\A u \in BoardUsers, id \in BoardTargets, i \in DOMAIN COLUMN_NAMES :
          (/\ response'.op = "patchStory" /\ response'.status = 200
           /\ response'.user = u /\ response'.id = id
           /\ PatchStory(u, id, MoveBody(COLUMN_NAMES[i]))) =>
              /\ StoryById(stories', id).status = COLUMN_NAMES[i]
              /\ ColumnsListing(BoardColumns(stories'), id) = {COLUMN_NAMES[i]}]_vars

\* The seed story that was Completed has been moved to Blocked.
C13_MovedToBlocked ==
    /\ response.op = "patchStory" /\ response.status = 200 /\ response.id = 5
    /\ 5 \in StoryIds(stories)
    /\ StoryById(stories, 5).status = "Blocked"
    /\ ColumnsListing(BoardColumns(stories), 5) = {"Blocked"}

\* The numeric suffixes of the numbered stories of a project that parse.
SuffixesOf(sts, project) ==
    {NumericSuffix(Val(s.storyNumber)) :
        s \in {r \in Range(sts) : r.project = project /\ Truthy(r.storyNumber)}} \ {NaN}

\* C14: a successful create for project P is numbered P-1001 when no stored
\* story of P has a parsable number, and otherwise P-(m+1) for the greatest
\* numeric suffix m among P's stories, padded with zeros to four digits.
C14_NextNumber ==
    [][\A u \in ActingUsers, body \in CreateBodies :
          (/\ response'.op = "createStory" /\ response'.status = 201
           /\ response'.user = u /\ CreateStory(u, body)) =>
              LET P == IF Has(body, "project") THEN body.project ELSE TD
                  m == SuffixesOf(stories, P)
                  n == IF m = {} THEN 1001 ELSE MaxOf(m) + 1
              IN StoryById(stories', response'.id).storyNumber
                    = Some(NumberText(P, PadStart(NumToString(n), 4, "0")))]_vars

\* C15: every stored comment's storyId is the id of a stored story and its
\* userId is the id of a stored user.
C15_CommentsReferToStored ==
    \A c \in Range(comments) :
        c.storyId \in StoryIds(stories) /\ c.userId \in UserIds(users)

\* C16: every update from the board of a stored story answers 200, whatever
\* was written to the story since the board was read, and stores the value of
\* each of its fields; so of two updates the one applied later determines the
\* fields that both name.
C16_LastWriteWins ==
    [][\A u \in BoardUsers, id \in BoardTargets, body \in BoardPatchBodies :
          (/\ response'.op = "patchStory" /\ response'.user = u /\ response'.id = id
           /\ id \in StoryIds(stories)
           /\ PatchStory(u, id, body)) =>
              /\ response'.status = 200
              /\ \A f \in DOMAIN body : StoryById(stories', id)[f] = body[f]
              /\ StoryById(stories', id).updatedBy = Some(u)]_vars

\* Two clients updated the seeded story 1: the Team Lead set status
\* "In Progress" and priority "Low", then the User moved it to "Blocked".
C16_TwoUpdatesApplied ==
    /\ response.op = "patchStory" /\ response.status = 200
    /\ response.user = 5 /\ response.id = 1 /\ steps = 2
    /\ StoryById(stories, 1).priority = "Low"
    /\ StoryById(stories, 1).status = "Blocked"
    /\ StoryById(stories, 1).updatedBy = Some(5)

\* C17: an estimate is High when the title or the description contains
\* "critical", "urgent", "bug" or "security", otherwise Low when either
\* contains "nice", "enhancement" or "improvement", otherwise Medium; and it
\* is 3 points when title and description together have at most 50 characters.
C17_EstimateByKeywords ==
    (response.op = "aiEstimate" /\ response.status = 200) =>
        LET t == ToLowerCase(response.title)
            d == ToLowerCase(response.description)
            Either(w) == Includes(t, w) \/ Includes(d, w)
        IN /\ response.prioritySuggestion =
                IF \E w \in {KwCritical, KwUrgent, KwBug, KwSecurity} : Either(w)
                THEN "High"
                ELSE IF \E w \in {KwNice, KwEnhancement, KwImprovement} : Either(w)
                THEN "Low"
                ELSE "Medium"
           /\ (Len(response.title) + Len(response.description) <= 50)
                  => response.estimatedPointer = 3

\* C18: no two stored users share a username and no two share an email, so
\* a registration whose username or email is taken stores no user.
C18_UniqueUsers ==
    \A i \in DOMAIN users, j \in DOMAIN users :
        i # j => (users[i].username # users[j].username
                  /\ users[i].email # users[j].email)

\* C19: the story points of every stored story are an integer from 1 to 5.
C19_PointsInRange ==
    \A s \in Range(stories) : ~IsNull(s.pointer) /\ Val(s.pointer) \in 1..5

\* C20: an update of a stored story that sets a due date on a day before
\* today answers 400 and leaves the story's stored due date as it was.
C20_PatchDueDateGate ==
    [][\A u \in BoardUsers, id \in BoardTargets, body \in BoardPatchBodies :
          (/\ response'.op = "patchStory" /\ response'.user = u /\ response'.id = id
           /\ id \in StoryIds(stories)
           /\ Has(body, "dueDate") /\ Day(Val(body.dueDate)) < Day(now)
           /\ PatchStory(u, id, body)) =>
              /\ response'.status = 400
              /\ StoryById(stories', id).dueDate = StoryById(stories, id).dueDate]_vars

\* A stored story whose number is absent or has no numeric suffix.
Malformed(s) == IsNull(s.storyNumber) \/ NumericSuffix(Val(s.storyNumber)) = NaN

\* C21: a create in a project that holds stories with an absent or malformed
\* number answers 201, and its number is the one computed from the project's
\* other stories: their greatest numeric suffix plus one, 1001 when none remain.
C21_MalformedRowsSkipped ==
    [][\A u \in BoardUsers, body \in NumberCreateBodies :
          LET P == IF Has(body, "project") THEN body.project ELSE TD IN
          (/\ response'.op = "createStory" /\ response'.user = u
           /\ \E s \in Range(stories) : s.project = P /\ Malformed(s)
           /\ CreateStory(u, body)) =>
              LET m == SuffixesOf(stories, P)
                  n == IF m = {} THEN 1001 ELSE MaxOf(m) + 1
              IN /\ response'.status = 201
                 /\ StoryById(stories', response'.id).storyNumber
                       = Some(NumberText(P, PadStart(NumToString(n), 4, "0")))]_vars

\* C22: the numbers handed out by successive creates in the project "R-D",
\* whose label holds a '-', have the suffixes 1001, 1002, 1003 in turn.
C22_HyphenLabelSequence ==
    \A i \in DOMAIN issued :
        (i > Len(SeedStories(0)) /\ issued[i].project = RD) =>
            NumericSuffix(issued[i].number)
                = 1000 + Cardinality({j \in (Len(SeedStories(0)) + 1)..i :
                                          issued[j].project = RD})

\* The answer to a request for an id that is not stored: the gate's refusal,
\* or 404 once the gate is passed; the stored stories and comments are kept.
NotFoundKept(gate) ==
    /\ response'.status = (IF gate # 0 THEN gate ELSE 404)
    /\ stories' = stories
    /\ comments' = comments

\* C25: get, update and delete of a story id that is not stored, and delete of
\* a comment id that is not stored, answer 404 to a principal the route admits
\* (never a success), and leave the stored stories and comments unchanged.
C25_UnknownIdNotFound ==
    [][/\ \A u \in ActingUsers, id \in ReadTargets :
            (/\ response'.op = "getStory" /\ response'.user = u
             /\ id \notin StoryIds(stories)
             /\ GetStory(u, id)) => NotFoundKept(RequireAuth(u))
       /\ \A u \in ActingUsers, id \in StoryTargets :
            (/\ response'.op = "patchStory" /\ response'.user = u
             /\ id \notin StoryIds(stories)
             /\ \E body \in PatchBodies : PatchStory(u, id, body)) =>
                NotFoundKept(RequireAuth(u))
       /\ \A u \in ActingUsers, id \in StoryTargets :
            (/\ response'.op = "deleteStory" /\ response'.user = u
             /\ id \notin StoryIds(stories)
             /\ DeleteStory(u, id)) => NotFoundKept(RequireRole(u, StoryDeleteRoles))
       /\ \A u \in ActingUsers, id \in CommentTargets :
            (/\ response'.op = "deleteComment" /\ response'.user = u
             /\ id \notin CommentIds(comments)
             /\ DeleteComment(u, id)) => NotFoundKept(RequireAuth(u))]_vars

\* A story that was stored and then deleted is the target of a refused delete.
C25_DeletedStoryNotFound ==
    /\ response.op = "deleteStory" /\ response.status = 404 /\ response.id = 1
    /\ 1 \notin StoryIds(stories)

\* C26: after a successful update the story's updatedBy is the acting
\* principal, also when the patch names another updatedBy, and every field
\* the patch does not name (updatedBy aside) keeps its previous value.
C26_EditorStampedFrameKept ==
    [][\A u \in ActingUsers, id \in StoryTargets, body \in PatchBodies :
          (/\ response'.op = "patchStory" /\ response'.status = 200
           /\ response'.user = u /\ response'.id = id
           /\ PatchStory(u, id, body)) =>
              LET old == StoryById(stories, id)
                  new == StoryById(stories', id)
              IN /\ new.updatedBy = Some(u)
                 /\ DOMAIN new = DOMAIN old
                 /\ \A f \in DOMAIN old \ (DOMAIN body \cup {"updatedBy"}) :
                        new[f] = old[f]]_vars

\* A patch that named user 4 as updatedBy was applied for another principal.
C26_SpoofedEditorOverridden ==
    /\ response.op = "patchStory" /\ response.status = 200
    /\ response.user # 4
    /\ response.id \in StoryIds(stories)
    /\ StoryById(stories, response.id).status = "Done"
    /\ StoryById(stories, response.id).createdBy = 4
    /\ StoryById(stories, response.id).updatedBy = Some(response.user)

\* C28: a user stored by the registration endpoint has role "User" whatever
\* the request body held, and no request of such a principal to delete a
\* story or to list the users is answered with success.
C28_RegisteredIsUser ==
    /\ \A i \in DOMAIN users : i > Len(SeedUsers) => users[i].role = "User"
    /\ (response.op \in {"deleteStory", "listUsers"} /\ response.user > Len(SeedUsers))
          => response.status # 200

\* C29: no user object in the body of an answer carries a password.
C29_NoPasswordSent == \A o \in UsersSent : "password" \notin DOMAIN o

\* The back end other than b.
OtherBackend(b) == IF b = "mem" THEN "db" ELSE "mem"

\* The answer and the stores of this step are those of the outcome o.
StepIs(o) ==
    response'.status = o.status /\ stories' = o.stories /\ comments' = o.comments

\* The five storage operations as the back end b carries out this step.
StorageStepOn(b) ==
    /\ \A u \in ActingUsers, body \in CreateBodies :
          (/\ response'.op = "createStory" /\ response'.user = u
           /\ IsAuthenticated(u) /\ InsertStoryValid(StampCreator(body, u), now)
           /\ CreateStory(u, body)) =>
              StepIs(CreateStoryOn(b, stories, comments, users,
                                   InsertStoryParse(StampCreator(body, u)), nextStoryId))
    /\ \A u \in ActingUsers, id \in StoryTargets, body \in PatchBodies :
          (/\ response'.op = "patchStory" /\ response'.user = u
           /\ IsAuthenticated(u)
           /\ PatchStory(u, id, body)) =>
              StepIs(UpdateStoryOn(b, stories, comments, users, id, StampEditor(body, u)))
    /\ \A u \in ActingUsers, id \in StoryTargets :
          (/\ response'.op = "deleteStory" /\ response'.user = u
           /\ RequireRole(u, StoryDeleteRoles) = 0
           /\ DeleteStory(u, id)) =>
              StepIs(DeleteStoryOn(b, stories, comments, id))
    /\ \A u \in ActingUsers, id \in ReadTargets, body \in CommentBodies :
          (/\ response'.op = "createComment" /\ response'.user = u
           /\ IsAuthenticated(u) /\ InsertCommentValid(StampAuthor(body, id, u))
           /\ CreateComment(u, id, body)) =>
              StepIs(CreateCommentOn(b, stories, comments,
                                     StampAuthor(body, id, u), nextCommentId))
    /\ \A u \in ActingUsers, id \in CommentTargets :
          (/\ response'.op = "deleteComment" /\ response'.user = u
           /\ IsAuthenticated(u)
           /\ DeleteComment(u, id)) =>
              StepIs(DeleteCommentOn(b, stories, comments, id))

\* C30: each create, update and delete of a story and each create and delete
\* of a comment has, from the same stored data, the same outcome and leaves
\* the same story numbers and field values on the other back end as on the
\* one that served it.
C30_BackendsAgree == [][StorageStepOn(OtherBackend(backend))]_vars

\* The position of the story with the given id in a story list.
PositionOf(sts, id) == CHOOSE i \in DOMAIN sts : sts[i].id = id

\* C27: the board computed from the stored stories lists each story in
\* exactly one column, the one its status names; within a column the stories
\* stand in the order of the story list; and the lengths of the columns add
\* up to the footer's total.
C27_BoardPartitionsStories ==
    LET board == BoardColumns(stories) IN
    /\ \A s \in Range(stories) : ColumnsListing(board, s.id) = {s.status}
    /\ \A c \in DOMAIN board : \A k \in DOMAIN board[c], l \in DOMAIN board[c] :
          k < l => PositionOf(stories, board[c][k].id) < PositionOf(stories, board[c][l].id)
    /\ SumOver([c \in DOMAIN board |-> Len(board[c])], DOMAIN board)
          = FooterTotal(stories)

\* The move the board sent was a drop into another column whose count was at
\* or over its limit before the drop.
DroppedOverLimit ==
    /\ client.from # client.to
    /\ WipLimits[client.to] > 0
    /\ Len(client.columns[client.to]) - 1 >= WipLimits[client.to]

\* The board's request has been answered.
MoveAnswered ==
    client.phase \in {"sent", "failed", "stale"} /\ steps = client.sentAt + 1

\* C23: a card can be dropped into a column whose count is at or over its
\* limit, the drop sends the status update, and the update of a stored
\* story answers 200 and stores the column as the story's status.
C23_WipLimitAdvisory ==
    /\ \A id \in BoardTargets, to \in Range(COLUMN_NAMES) :
          (/\ client.phase = "loaded"
           /\ id \in CardIds(client.columns)
           /\ SourceOf(client.columns, id) # to
           /\ IsWipLimitExceeded(client.columns, to)) =>
              ENABLED OnDragEnd(id, to, 0)
    /\ (MoveAnswered /\ DroppedOverLimit /\ client.id \in StoryIds(stories)) =>
          /\ response.op = "patchStory" /\ response.status = 200
          /\ StoryById(stories, client.id).status = client.to

\* A third story was dropped into the Blocked column, whose limit is 2, and
\* the update went through.
C23_DroppedIntoFullColumn ==
    /\ MoveAnswered /\ DroppedOverLimit
    /\ client.to = "Blocked" /\ response.status = 200
    /\ Len(BoardColumns(stories)["Blocked"]) = 3

\* The ids of the cards of each column, in their order.
ColumnIds(columns) ==
    [c \in DOMAIN columns |-> [k \in DOMAIN columns[c] |-> columns[c][k].id]]

\* The board's move request has completed, with success or with an error.
MoveCompleted == client.phase \in {"failed", "stale"}

\* The local columns are the grouping by status of the server's stories.
BoardAgrees == ColumnIds(client.columns) = ColumnIds(BoardColumns(stories))

\* C24: once the request of a move has completed, with success or with an
\* error, the board's local columns eventually are the grouping by status
\* of the server's stories.
C24_BoardReconciled == MoveCompleted ~> BoardAgrees

====
